---- MODULE Spec2Model ----
(***************************************************************************)
(* State-machine model of the realtime tutoring client (src/App.tsx).      *)
(*                                                                         *)
(* One App component instance: its React state, its refs, the closures     *)
(* created by each startSession call, the session transport, the two      *)
(* audio contexts of each call, the playback sources and the microtask     *)
(* reactions registered on each sessionPromise.  Every event-loop task    *)
(* (a click, a transport callback, a capture tick, a promise settlement)   *)
(* is one action.                                                          *)
(***************************************************************************)
EXTENDS Integers, Sequences, FiniteSets, TLC

\* ------------------------------------------------------------------ bounds
MaxSessions == 2    \* startSession calls in one behaviour
MaxMsgs     == 3    \* inbound audio messages in one behaviour
MaxDur      == 2    \* longest buffer duration, in clock units
MaxClock    == 2    \* highest value an output clock is advanced to
MaxTicks    == 2    \* capture ticks (onaudioprocess) in one behaviour
MaxCams     == 2    \* camera streams acquired in one behaviour
MaxTimers   == 2    \* video interval timers created in one behaviour
PlaybackSessions == 1   \* startSession calls under SpecPlayback
TeardownSessions == 1   \* startSession calls under SpecTeardown
TeardownMsgs     == 2   \* inbound audio messages under SpecTeardown
TranscriptSessions == 1 \* startSession calls under SpecTranscript
MaxText     == 2    \* fragments accumulated in one transcription stream
MaxRecords  == 3    \* records on the transcript board
RestartText    == 2 \* fragments in one stream under SpecTranscriptRestart
RestartRecords == 1 \* records on the board under SpecTranscriptRestart
MaxToggles  == 1    \* toggleCamera calls suspended in getUserMedia at once
VizContexts  == 1   \* audio contexts handed to the Visualizer
VizGains     == 2   \* gain nodes handed to the Visualizer
VizColors    == 2   \* colours handed to the Visualizer
MaxAnalysers == 3   \* analysers one Visualizer creates in one behaviour
MaxFrames    == 4   \* animation frames it requests in one behaviour
MaxChunk     == 2   \* samples in one chunk handed to the PCM encoder
RestartSessions == 2    \* startSession calls under SpecRestart
RestartMsgs     == 2    \* inbound audio messages under SpecRestart
SubSteps     == 4   \* float values told apart between two 16-bit levels

Calls     == 1..MaxSessions
MsgIds    == 1..MaxMsgs
Durations == 1..MaxDur

\* ----------------------------------------------------------------- helpers
Max(a, b) == IF a >= b THEN a ELSE b

Range(s) == {s[i] : i \in DOMAIN s}

\* ------------------------------------------------------------------- state
VARIABLES
  \* React state (useState), src/App.tsx:57-63
  isActive, isMuted, isCameraOn, error,
  \* refs (useRef), src/App.tsx:66-82
  inputAudioContextRef, outputAudioContextRef, outputGainNodeRef,
  sourcesRef, nextStartTimeRef,
  videoStreamRef, videoIntervalRef, sessionRef,
  \* one startSession invocation each: its position and the values its
  \* closure captured
  nCalls, call,
  \* the objects each invocation created
  inputCtx, outputCtx, clock, conn, promise, reactions, graph, micStream,
  \* camera streams and interval timers, and the toggleCamera calls
  \* suspended in their camera acquisition
  nCams, camStream, nTimers, timers, camToggle,
  \* inbound audio messages / playback sources
  nMsgs, msgs,
  \* outbound capture chunks: every capture tick, and the chunks handed
  \* to sendRealtimeInput in invocation order
  tickLog, sent,
  \* transcription accumulators and the transcript board
  currentInputTranscription, currentOutputTranscription, transcriptions,
  \* one Visualizer instance (src/components/Visualizer.tsx): its props, the
  \* analyser of its running effect, its animationRef, the connections of
  \* the audio graph around it and the animation frames requested
  vizProps, vizMounted, vizAnalyser, animationRef, vizEdges, nAnalysers,
  vizFrames, nFrames,
  \* the PCM codec (utils/audioUtils): the chunk of float samples, the
  \* rounding the encoder uses, the encoded blob and the decoded samples
  pcmStage, pcmIn, pcmRounding, pcmBlob, pcmOut,
  \* history
  sched, broken, interruptedSince, swept, stopRun, stopRaised, afterStop,
  staleUpTo

reactVars == <<isActive, isMuted, isCameraOn, error>>
refVars   == <<inputAudioContextRef, outputAudioContextRef, outputGainNodeRef,
               sourcesRef, nextStartTimeRef, videoStreamRef, videoIntervalRef,
               sessionRef>>
callVars  == <<nCalls, call>>
envVars   == <<inputCtx, outputCtx, clock, conn, promise, reactions, graph,
               micStream>>
videoVars == <<nCams, camStream, nTimers, timers, camToggle>>
msgVars   == <<nMsgs, msgs>>
sendVars  == <<tickLog, sent>>
textVars  == <<currentInputTranscription, currentOutputTranscription,
               transcriptions>>
vizVars   == <<vizProps, vizMounted, vizAnalyser, animationRef, vizEdges,
               nAnalysers, vizFrames, nFrames>>
pcmVars   == <<pcmStage, pcmIn, pcmRounding, pcmBlob, pcmOut>>
histVars  == <<sched, broken, interruptedSince, swept, stopRun,
               stopRaised, afterStop, staleUpTo>>

vars == <<reactVars, refVars, callVars, envVars, videoVars, msgVars,
          sendVars, textVars, vizVars, pcmVars, histVars>>

\* what the session, capture, camera and playback operations never touch
sideVars == <<textVars, vizVars, pcmVars>>

\* the program state proper (everything but the history variables)
progVars == <<reactVars, refVars, callVars, envVars, videoVars, msgVars,
              sendVars, textVars>>

\* cam: how the camera acquisition of the call ended; video: whether
\* startVideoTransmission has run for its session
NoCall == [pc |-> "none", isMuted |-> FALSE, isCameraOn |-> FALSE,
           cam |-> "none", video |-> FALSE]

NoMsg == [st |-> "none", sess |-> 0, ctx |-> 0, dur |-> 0, startAt |-> 0]

\* a source whose 'ended' listener has run, and a message whose handler
\* threw: nothing refers to them any more
Gone == [NoMsg EXCEPT !.st = "gone"]

Failed == [NoMsg EXCEPT !.st = "failed"]

\* history: the latest source.start, and the last sweep of the live set
\* (sessions: the sessions a source was started for so far; firstOfSess:
\* the latest start was the first of its session)
NoSched == [id |-> 0, sess |-> 0, startAt |-> 0, dur |-> 0, clockAt |-> 0,
            afterInt |-> FALSE, fresh |-> FALSE, first |-> 0, sum |-> 0,
            n |-> 0, sessions |-> {}, firstOfSess |-> FALSE]

NoSweep == [kind |-> "none", live |-> {}, stopped |-> {}, threw |-> FALSE]

\* the props of a Visualizer that shows nothing (0: null)
NoProps == [isActive |-> FALSE, audioContext |-> 0, gainNode |-> 0,
            color |-> 1]

\* no blob
NoBlob == [mimeType |-> "", data |-> <<>>]

\* the client after construction, the codec aside
InitClient ==
  /\ isActive = FALSE /\ isMuted = FALSE /\ isCameraOn = FALSE
  /\ error = FALSE
  /\ inputAudioContextRef = 0 /\ outputAudioContextRef = 0
  /\ outputGainNodeRef = 0
  /\ sourcesRef = <<>> /\ nextStartTimeRef = 0
  /\ videoStreamRef = 0 /\ videoIntervalRef = 0 /\ sessionRef = 0
  /\ nCalls = 0 /\ call = [k \in Calls |-> NoCall]
  /\ inputCtx = [k \in Calls |-> "none"]
  /\ outputCtx = [k \in Calls |-> "none"]
  /\ clock = [k \in Calls |-> 0]
  /\ conn = [k \in Calls |-> "none"]
  /\ promise = [k \in Calls |-> "none"]
  /\ reactions = [k \in Calls |-> <<>>]
  /\ graph = [k \in Calls |-> FALSE]
  /\ micStream = [k \in Calls |-> "none"]
  /\ nCams = 0 /\ camStream = [c \in 1..MaxCams |-> "none"]
  /\ nTimers = 0 /\ timers = {} /\ camToggle = 0
  /\ nMsgs = 0 /\ msgs = [m \in MsgIds |-> NoMsg]
  /\ tickLog = <<>> /\ sent = <<>>
  /\ currentInputTranscription = <<>> /\ currentOutputTranscription = <<>>
  /\ transcriptions = <<>>
  /\ vizProps = NoProps /\ vizMounted = TRUE /\ vizAnalyser = 0
  /\ animationRef = 0 /\ vizEdges = {} /\ nAnalysers = 0
  /\ vizFrames = {} /\ nFrames = 0
  /\ sched = NoSched /\ broken = TRUE /\ interruptedSince = FALSE
  /\ swept = NoSweep /\ stopRun = 0 /\ stopRaised = FALSE
  /\ afterStop = FALSE /\ staleUpTo = 0

\* the client after construction, no chunk handed to the codec
Init ==
  /\ InitClient
  /\ pcmStage = "idle" /\ pcmIn = <<>> /\ pcmRounding = "floor"
  /\ pcmBlob = NoBlob /\ pcmOut = <<>>

\* ------------------------------------------------- history bookkeeping
\* a step that is neither a stopSession call nor a sweep of the live set
Quiet == swept' = NoSweep /\ stopRun' = 0 /\ stopRaised' = FALSE

\* staleUpTo: the audio messages up to this one were delivered before the
\* last interruption that found a decode in flight (0: none)
KeepPlay == UNCHANGED <<sched, broken, interruptedSince, staleUpTo>>

\* afterStop: stopSession has returned and the user has done nothing since
ByUser == afterStop' = FALSE

NotByUser == UNCHANGED afterStop

\* ------------------------------------------------------- startSession
\* Click on "Begin Lesson" (rendered only while isActive is false): the
\* handler runs up to its first await.  The closure keeps the isMuted and
\* isCameraOn values of the render that created it.
StartSession(maxCalls) ==
  /\ ~isActive
  /\ nCalls < maxCalls
  /\ LET k == nCalls + 1 IN
     /\ nCalls' = k
     /\ error' = FALSE
     /\ inputCtx' = [inputCtx EXCEPT ![k] = "running"]
     /\ outputCtx' = [outputCtx EXCEPT ![k] = "running"]
     /\ inputAudioContextRef' = k
     /\ outputAudioContextRef' = k
     /\ outputGainNodeRef' = k
     /\ call' = [call EXCEPT ![k] = [NoCall EXCEPT !.pc = "awaitMic",
                                                   !.isMuted = isMuted,
                                                   !.isCameraOn = isCameraOn]]
  /\ UNCHANGED <<isActive, isMuted, isCameraOn>>
  /\ UNCHANGED <<sourcesRef, nextStartTimeRef, videoStreamRef,
                 videoIntervalRef, sessionRef>>
  /\ UNCHANGED <<clock, conn, promise, reactions, graph, micStream>>
  /\ UNCHANGED <<videoVars, msgVars, sendVars>>
  /\ broken' = TRUE /\ UNCHANGED <<sched, interruptedSince, staleUpTo>>
  /\ UNCHANGED sideVars
  /\ ByUser
  /\ Quiet

\* ai.live.connect(...) followed by the await of line 290: the continuation
\* of startSession is the first reaction registered on the promise.
Connect(k, cam) ==
  /\ conn' = [conn EXCEPT ![k] = "connecting"]
  /\ promise' = [promise EXCEPT ![k] = "pending"]
  /\ reactions' = [reactions EXCEPT ![k] = <<[kind |-> "assign", chunk |-> 0]>>]
  /\ call' = [call EXCEPT ![k].pc = "awaitSession", ![k].cam = cam]

\* getUserMedia({audio}) resolves
MicGranted(k) ==
  /\ call[k].pc = "awaitMic"
  /\ micStream' = [micStream EXCEPT ![k] = "live"]
  /\ IF call[k].isCameraOn
       THEN /\ call' = [call EXCEPT ![k].pc = "awaitCam"]
            /\ UNCHANGED <<conn, promise, reactions>>
       ELSE Connect(k, "none")
  /\ UNCHANGED <<reactVars, refVars, nCalls, inputCtx, outputCtx, clock, graph>>
  /\ UNCHANGED <<videoVars, msgVars, sendVars>>
  /\ UNCHANGED sideVars
  /\ NotByUser
  /\ KeepPlay /\ Quiet

\* the catch branch of startSession, lines 291-295
StartFailed(k) ==
  /\ error' = TRUE
  /\ isActive' = FALSE
  /\ call' = [call EXCEPT ![k].pc = "failed"]

\* getUserMedia({audio}) rejects
MicDenied(k) ==
  /\ call[k].pc = "awaitMic"
  /\ StartFailed(k)
  /\ UNCHANGED <<isMuted, isCameraOn, refVars, nCalls, envVars>>
  /\ UNCHANGED <<videoVars, msgVars, sendVars>>
  /\ UNCHANGED sideVars
  /\ NotByUser
  /\ KeepPlay /\ Quiet

\* getUserMedia({video}) resolves, lines 177-182
CamGranted(k) ==
  /\ call[k].pc = "awaitCam"
  /\ nCams < MaxCams
  /\ nCams' = nCams + 1
  /\ camStream' = [camStream EXCEPT ![nCams + 1] = "live"]
  /\ videoStreamRef' = nCams + 1
  /\ Connect(k, "granted")
  /\ UNCHANGED <<reactVars, nCalls, inputCtx, outputCtx, clock, graph, micStream>>
  /\ UNCHANGED <<inputAudioContextRef, outputAudioContextRef, outputGainNodeRef,
                 sourcesRef, nextStartTimeRef, videoIntervalRef, sessionRef>>
  /\ UNCHANGED <<nTimers, timers, camToggle, msgVars, sendVars>>
  /\ UNCHANGED sideVars
  /\ NotByUser
  /\ KeepPlay /\ Quiet

\* getUserMedia({video}) rejects, lines 183-186
CamDenied(k) ==
  /\ call[k].pc = "awaitCam"
  /\ isCameraOn' = FALSE
  /\ Connect(k, "denied")
  /\ UNCHANGED <<isActive, isMuted, error, refVars, nCalls>>
  /\ UNCHANGED <<inputCtx, outputCtx, clock, graph, micStream>>
  /\ UNCHANGED <<videoVars, msgVars, sendVars>>
  /\ UNCHANGED sideVars
  /\ NotByUser
  /\ KeepPlay /\ Quiet

\* registration of a callback with sessionPromise.then while the promise
\* is pending: reactions run in registration order
EnqueueReactionLifo(q, r) == <<r>> \o q

EnqueueReaction(q, r) == Append(q, r)

\* callbacks.onopen, lines 192-217
OnOpen(k) ==
  /\ conn[k] = "connecting"
  /\ conn' = [conn EXCEPT ![k] = "open"]
  /\ isActive' = TRUE
  /\ graph' = [graph EXCEPT ![k] = (inputCtx[k] = "running")]
  /\ reactions' = [reactions EXCEPT ![k] =
        IF call[k].isCameraOn
          THEN EnqueueReaction(@, [kind |-> "video", chunk |-> 0])
          ELSE @]
  /\ UNCHANGED <<isMuted, isCameraOn, error, refVars, callVars>>
  /\ UNCHANGED <<inputCtx, outputCtx, clock, promise, micStream>>
  /\ UNCHANGED <<videoVars, msgVars, sendVars>>
  /\ UNCHANGED sideVars
  /\ NotByUser
  /\ KeepPlay /\ Quiet

\* callbacks.onclose, lines 272-275: the transport closed
OnClose(k) ==
  /\ conn[k] \in {"open", "closing"}
  /\ conn' = [conn EXCEPT ![k] = "closed"]
  /\ isActive' = FALSE
  /\ UNCHANGED <<isMuted, isCameraOn, error, refVars, callVars>>
  /\ UNCHANGED <<inputCtx, outputCtx, clock, promise, reactions, graph, micStream>>
  /\ UNCHANGED <<videoVars, msgVars, sendVars>>
  /\ UNCHANGED sideVars
  /\ NotByUser
  /\ KeepPlay /\ Quiet

\* the connect promise rejects: the await of line 290 throws into the catch
RejectPromise(k) ==
  /\ promise[k] = "pending"
  /\ conn[k] = "connecting"
  /\ promise' = [promise EXCEPT ![k] = "rejected"]
  /\ conn' = [conn EXCEPT ![k] = "closed"]
  /\ reactions' = [reactions EXCEPT ![k] = <<>>]
  /\ StartFailed(k)
  /\ UNCHANGED <<isMuted, isCameraOn, refVars, nCalls>>
  /\ UNCHANGED <<inputCtx, outputCtx, clock, graph, micStream>>
  /\ UNCHANGED <<videoVars, msgVars, sendVars>>
  /\ UNCHANGED sideVars
  /\ NotByUser
  /\ KeepPlay /\ Quiet

\* ------------------------------------------------------------- capture
\* line 201: the mute test of onaudioprocess reads the isMuted binding of
\* the startSession closure that installed the handler
MutedInHandler(k) == call[k].isMuted

\* session.sendRealtimeInput, line 205, on a transport that is no longer
\* open: the session object is external; the call raises or drops the chunk
SendMayFail(k) == conn[k] # "open"

\* scriptProcessor.onaudioprocess, lines 200-207.  The chunk is encoded
\* and its send is registered with sessionPromise.then; on a resolved
\* promise the callback runs in the microtask that ends this task.
OnAudioProcess(k) ==
  /\ graph[k]
  /\ inputCtx[k] = "running"
  /\ Len(tickLog) < MaxTicks
  /\ LET c == Len(tickLog) + 1
         encoded == ~MutedInHandler(k)
     IN
     /\ tickLog' = Append(tickLog, [sess |-> k, muted |-> isMuted,
                                    encoded |-> encoded])
     /\ IF ~encoded
          THEN UNCHANGED <<sent, reactions>>
          ELSE IF promise[k] = "resolved"
            THEN /\ \E fails \in BOOLEAN :
                      /\ fails => SendMayFail(k)
                      /\ sent' = Append(sent, [id |-> c, sess |-> k,
                                               deferred |-> FALSE,
                                               failed |-> fails])
                 /\ UNCHANGED reactions
            ELSE /\ reactions' = [reactions EXCEPT ![k] =
                        EnqueueReaction(@, [kind |-> "chunk", chunk |-> c])]
                 /\ UNCHANGED sent
  /\ UNCHANGED <<reactVars, refVars, callVars>>
  /\ UNCHANGED <<inputCtx, outputCtx, clock, conn, promise, graph, micStream>>
  /\ UNCHANGED <<videoVars, msgVars>>
  /\ UNCHANGED sideVars
  /\ NotByUser
  /\ KeepPlay /\ Quiet

\* toggleMute, line 298 (the button is rendered only while isActive)
ToggleMute ==
  /\ isActive
  /\ isMuted' = ~isMuted
  /\ UNCHANGED <<isActive, isCameraOn, error, refVars, callVars, envVars>>
  /\ UNCHANGED <<videoVars, msgVars, sendVars>>
  /\ UNCHANGED sideVars
  /\ ByUser
  /\ KeepPlay /\ Quiet

\* --------------------------------------------------------------- video
\* startVideoTransmission, lines 125-151, as a function of the timer state
\* v = [ref, timers, n]: clear the interval the ref holds, install a new one
StartVideoTransmission(v) ==
  [ref    |-> v.n + 1,
   timers |-> (IF v.ref # 0 THEN v.timers \ {v.ref} ELSE v.timers)
                 \cup {v.n + 1},
   n      |-> v.n + 1]

\* reactions run as one loop that the first raising callback leaves
ReactionsAfterAbort(q, raised) == IF raised THEN <<>> ELSE q

\* the reactions still to run after one of them has run: each callback
\* registered with then (lines 204-206, 215) is a job of its own, and what it
\* raises rejects only the promise that then returned, which nothing reads
ReactionsAfter(q, raised) == q

\* the reactions of sessionPromise k, run in order once it resolves:
\* r = [sessionRef, sent, video]; fails: sendRealtimeInput raises
RECURSIVE RunReactions(_, _, _, _)
RunReactions(k, q, r, fails) ==
  IF q = <<>> THEN r
  ELSE LET h == Head(q)
           r1 == CASE h.kind = "assign" -> [r EXCEPT !.sessionRef = k]
                   [] h.kind = "chunk"  ->
                        [r EXCEPT !.sent = Append(@, [id |-> h.chunk,
                                                     sess |-> k,
                                                     deferred |-> TRUE,
                                                     failed |-> fails])]
                   [] h.kind = "video"  ->
                        [r EXCEPT !.video = StartVideoTransmission(@)]
       IN RunReactions(k, ReactionsAfter(Tail(q), h.kind = "chunk" /\ fails),
                       r1, fails)

HasChunk(q) == \E i \in DOMAIN q : q[i].kind = "chunk"

HasVideo(q) == \E i \in DOMAIN q : q[i].kind = "video"

\* the connect promise resolves to the session: line 290 stores it and the
\* callbacks registered with then run, all in registration order
ResolvePromise(k) ==
  /\ promise[k] = "pending"
  /\ conn[k] \in {"open", "closing", "closed"}
  /\ HasVideo(reactions[k]) => nTimers < MaxTimers
  /\ \E fails \in BOOLEAN :
     /\ fails => (SendMayFail(k) /\ HasChunk(reactions[k]))
     /\ LET r == RunReactions(k, reactions[k],
                [sessionRef |-> sessionRef, sent |-> sent,
                 video |-> [ref |-> videoIntervalRef, timers |-> timers,
                            n |-> nTimers]], fails)
        IN
        /\ sessionRef' = r.sessionRef
        /\ sent' = r.sent
        /\ videoIntervalRef' = r.video.ref
        /\ timers' = r.video.timers
        /\ nTimers' = r.video.n
        /\ call' = [call EXCEPT ![k].pc = "done",
                                 ![k].video = (r.video.n # nTimers)]
  /\ promise' = [promise EXCEPT ![k] = "resolved"]
  /\ reactions' = [reactions EXCEPT ![k] = <<>>]
  /\ UNCHANGED <<reactVars, nCalls, tickLog, msgVars, nCams, camStream,
                 camToggle>>
  /\ UNCHANGED <<inputAudioContextRef, outputAudioContextRef, outputGainNodeRef,
                 sourcesRef, nextStartTimeRef, videoStreamRef>>
  /\ UNCHANGED <<inputCtx, outputCtx, clock, conn, graph, micStream>>
  /\ UNCHANGED sideVars
  /\ NotByUser
  /\ KeepPlay /\ Quiet

\* toggleCamera while no session is active, lines 301-304
ToggleCameraIdle ==
  /\ ~isActive
  /\ isCameraOn' = ~isCameraOn
  /\ UNCHANGED <<isActive, isMuted, error, refVars, callVars, envVars>>
  /\ UNCHANGED <<videoVars, msgVars, sendVars>>
  /\ UNCHANGED sideVars
  /\ ByUser
  /\ KeepPlay /\ Quiet

\* toggleCamera mid-session with the camera on, lines 307-311: the interval
\* is cleared and the tracks stopped, the refs keep their values
ToggleCameraOff ==
  /\ isActive /\ isCameraOn
  /\ timers' = IF videoIntervalRef # 0 THEN timers \ {videoIntervalRef}
                                        ELSE timers
  /\ camStream' = IF videoStreamRef # 0
                    THEN [camStream EXCEPT ![videoStreamRef] = "stopped"]
                    ELSE camStream
  /\ isCameraOn' = FALSE
  /\ UNCHANGED <<isActive, isMuted, error, refVars, callVars, envVars>>
  /\ UNCHANGED <<nCams, nTimers, camToggle, msgVars, sendVars>>
  /\ UNCHANGED sideVars
  /\ ByUser
  /\ KeepPlay /\ Quiet

\* toggleCamera mid-session with the camera off, lines 313-315: the call
\* is suspended in getUserMedia({video})
ToggleCameraOn ==
  /\ isActive /\ ~isCameraOn
  /\ camToggle < MaxToggles
  /\ camToggle' = camToggle + 1
  /\ UNCHANGED <<reactVars, refVars, callVars, envVars>>
  /\ UNCHANGED <<nCams, camStream, nTimers, timers, msgVars, sendVars>>
  /\ UNCHANGED sideVars
  /\ ByUser
  /\ KeepPlay /\ Quiet

\* the camera acquisition of a suspended toggleCamera call resolves, lines
\* 316-325: the stream is stored, and frames are started on the session the
\* ref holds at that time
ToggleCamGranted ==
  /\ camToggle > 0
  /\ nCams < MaxCams
  /\ sessionRef # 0 => nTimers < MaxTimers
  /\ camToggle' = camToggle - 1
  /\ nCams' = nCams + 1
  /\ camStream' = [camStream EXCEPT ![nCams + 1] = "live"]
  /\ videoStreamRef' = nCams + 1
  /\ isCameraOn' = TRUE
  /\ LET v == IF sessionRef # 0
                THEN StartVideoTransmission([ref |-> videoIntervalRef,
                                             timers |-> timers, n |-> nTimers])
                ELSE [ref |-> videoIntervalRef, timers |-> timers,
                      n |-> nTimers]
     IN /\ videoIntervalRef' = v.ref
        /\ timers' = v.timers
        /\ nTimers' = v.n
  /\ UNCHANGED <<isActive, isMuted, error, callVars, envVars>>
  /\ UNCHANGED <<inputAudioContextRef, outputAudioContextRef, outputGainNodeRef,
                 sourcesRef, nextStartTimeRef, sessionRef>>
  /\ UNCHANGED <<msgVars, sendVars>>
  /\ UNCHANGED sideVars
  /\ NotByUser
  /\ KeepPlay /\ Quiet

\* the camera acquisition of a suspended toggleCamera call rejects, lines
\* 326-328
ToggleCamDenied ==
  /\ camToggle > 0
  /\ camToggle' = camToggle - 1
  /\ UNCHANGED <<reactVars, refVars, callVars, envVars>>
  /\ UNCHANGED <<nCams, camStream, nTimers, timers, msgVars, sendVars>>
  /\ UNCHANGED sideVars
  /\ NotByUser
  /\ KeepPlay /\ Quiet

\* ------------------------------------------------------------ playback
\* line 222 with the cursor set to the clock instead of raised to it
CursorOnReceiptFromClock(cursor, now) == now

\* line 222: the cursor is raised to the output clock when the message is
\* received, before the decode is awaited
CursorOnReceipt(cursor, now) == Max(cursor, now)

\* line 234 with the cursor restarted from the clock instead of advanced
CursorAfterStartFromClock(cursor, dur, now) == now + dur

\* line 234: nextStartTimeRef.current += audioBuffer.duration
CursorAfterStart(cursor, dur, now) == cursor + dur

\* the output clock read by the next audio message has passed the cursor
ClockPassed(c, cursor) ==
  outputAudioContextRef # 0 /\ c[outputAudioContextRef] > cursor

\* the output clock of context k advances (only while something can read it:
\* the ref holds the context, or a decode or source of it is outstanding)
ClockAdvance(k) ==
  /\ outputCtx[k] = "running"
  /\ \/ outputAudioContextRef = k
     \/ \E m \in MsgIds : msgs[m].ctx = k /\ msgs[m].st \in {"decoding", "started"}
  /\ clock[k] < MaxClock
  /\ clock' = [clock EXCEPT ![k] = @ + 1]
  /\ broken' = (broken \/ ClockPassed(clock', nextStartTimeRef))
  /\ UNCHANGED <<reactVars, refVars, callVars>>
  /\ UNCHANGED <<inputCtx, outputCtx, conn, promise, reactions, graph, micStream>>
  /\ UNCHANGED <<videoVars, msgVars, sendVars>>
  /\ UNCHANGED <<sched, interruptedSince, staleUpTo>>
  /\ UNCHANGED sideVars
  /\ NotByUser
  /\ Quiet

\* onmessage with an inline audio payload, lines 219-224, up to the await:
\* the context is the one the ref holds now, the cursor is raised, and the
\* decode is in flight
OnMessageAudio(k, d, maxMsgs) ==
  /\ conn[k] \in {"open", "closing"}
  /\ outputAudioContextRef # 0
  /\ nMsgs < maxMsgs
  /\ LET id == nMsgs + 1
         ctx == outputAudioContextRef
     IN
     /\ nMsgs' = id
     /\ nextStartTimeRef' = CursorOnReceipt(nextStartTimeRef, clock[ctx])
     /\ msgs' = [msgs EXCEPT ![id] = [NoMsg EXCEPT !.st = "decoding",
                                        !.sess = k, !.ctx = ctx, !.dur = d]]
  /\ UNCHANGED <<reactVars, callVars, envVars, videoVars, sendVars>>
  /\ UNCHANGED <<inputAudioContextRef, outputAudioContextRef, outputGainNodeRef,
                 sourcesRef, videoStreamRef, videoIntervalRef, sessionRef>>
  /\ UNCHANGED sideVars
  /\ NotByUser
  /\ KeepPlay /\ Quiet

\* source.connect(outputGainNodeRef.current!), line 227: connecting nodes
\* of two different contexts throws
ConnectThrows(ctx) == outputGainNodeRef # ctx

\* decodeAudioData (utils/audioUtils) is a suspension point: several decodes
\* may be in flight, each settles at some later time, in any order, while
\* the output clock keeps running (spec sections 4.2 and 5)
DecodeSettles(id) == msgs[id].st = "decoding"

\* staleUpTo once the decode of id has settled: kept while another decode
\* it covers is in flight
StaleAfter(id) ==
  IF \E m \in MsgIds \ {id} : m <= staleUpTo /\ msgs[m].st = "decoding"
    THEN staleUpTo ELSE 0

\* decodeAudioData settles and onmessage resumes, lines 225-235
DecodeDone(id) ==
  /\ DecodeSettles(id)
  /\ LET m == msgs[id]
         now == clock[m.ctx]
         fresh == \/ broken
                  \/ sched.id = 0
                  \/ id # sched.id + 1
                  \/ sched.sess # m.sess
     IN
     IF ConnectThrows(m.ctx)
       THEN /\ msgs' = [msgs EXCEPT ![id] = Failed]
            /\ UNCHANGED <<nextStartTimeRef, sourcesRef>>
            /\ UNCHANGED <<sched, broken, interruptedSince>>
            /\ staleUpTo' = StaleAfter(id)
       ELSE /\ msgs' = [msgs EXCEPT ![id] =
                 [m EXCEPT !.st = "started", !.startAt = nextStartTimeRef]]
            /\ nextStartTimeRef' = CursorAfterStart(nextStartTimeRef, m.dur, now)
            /\ sourcesRef' = Append(sourcesRef, id)
            /\ sched' = [id |-> id, sess |-> m.sess,
                         startAt |-> nextStartTimeRef, dur |-> m.dur,
                         clockAt |-> now, afterInt |-> interruptedSince,
                         fresh |-> fresh,
                         first |-> IF fresh THEN nextStartTimeRef
                                            ELSE sched.first,
                         sum |-> IF fresh THEN 0 ELSE sched.sum + sched.dur,
                         n |-> IF fresh THEN 1 ELSE sched.n + 1,
                         sessions |-> sched.sessions \cup {m.sess},
                         firstOfSess |-> m.sess \notin sched.sessions]
            /\ interruptedSince' = FALSE
            /\ staleUpTo' = StaleAfter(id)
            /\ broken' = ClockPassed(clock, nextStartTimeRef')
  /\ UNCHANGED <<reactVars, callVars, envVars, videoVars, sendVars, nMsgs>>
  /\ UNCHANGED <<inputAudioContextRef, outputAudioContextRef, outputGainNodeRef,
                 videoStreamRef, videoIntervalRef, sessionRef>>
  /\ UNCHANGED sideVars
  /\ NotByUser
  /\ Quiet

\* a started source plays to its end: the 'ended' event is queued
NaturalEnd(id) ==
  /\ msgs[id].st = "started"
  /\ outputCtx[msgs[id].ctx] = "running"
  /\ clock[msgs[id].ctx] >= msgs[id].startAt + msgs[id].dur
  /\ msgs' = [msgs EXCEPT ![id].st = "finished"]
  /\ UNCHANGED <<reactVars, refVars, callVars, envVars, videoVars, sendVars,
                 nMsgs>>
  /\ UNCHANGED sideVars
  /\ NotByUser
  /\ KeepPlay /\ Quiet

\* a delete that takes out the oldest member
DeleteSourceOldest(q, id) == IF q = <<>> THEN q ELSE Tail(q)

\* Set.delete, line 230
DeleteSource(q, id) == SelectSeq(q, LAMBDA x : x # id)

\* the 'ended' listener of a source, lines 229-231
OnEnded(id) ==
  /\ msgs[id].st \in {"finished", "killed"}
  /\ msgs' = [msgs EXCEPT ![id] = Gone]
  /\ sourcesRef' = DeleteSource(sourcesRef, id)
  /\ UNCHANGED <<reactVars, callVars, envVars, videoVars, sendVars, nMsgs>>
  /\ UNCHANGED <<inputAudioContextRef, outputAudioContextRef, outputGainNodeRef,
                 nextStartTimeRef, videoStreamRef, videoIntervalRef, sessionRef>>
  /\ UNCHANGED sideVars
  /\ NotByUser
  /\ KeepPlay /\ Quiet

\* sources of the live set whose playback is already over: stop() on such
\* a source raises on some implementations and is a no-op on others
AlreadyOver == {s \in Range(sourcesRef) : msgs[s].st = "finished"}

\* a sweep without the try/catch: the first raising stop() aborts it
SweepAbortsUncaught(threw) == threw

\* lines 116-118 and 260-262: try { s.stop() } catch (e) {}
SweepAborts(threw) == FALSE

\* the sources after s.stop() was called on the members of stopped and the
\* set cleared: "killed" is a source taken out of the set by a sweep, its
\* 'ended' event still to be delivered
StopAll(stopped) ==
  [m \in MsgIds |->
     IF m \in stopped /\ msgs[m].st \in {"started", "finished"}
       THEN [msgs[m] EXCEPT !.st = "killed"]
       ELSE msgs[m]]

\* onmessage with the interruption marker, lines 259-265
OnMessageInterrupted(k) ==
  /\ conn[k] \in {"open", "closing"}
  /\ \E threw \in BOOLEAN :
       /\ threw => AlreadyOver # {}
       /\ swept' = [kind |-> "interrupt", live |-> Range(sourcesRef),
                    stopped |-> IF SweepAborts(threw) THEN {}
                                ELSE Range(sourcesRef),
                    threw |-> threw]
       /\ IF SweepAborts(threw)
            THEN UNCHANGED <<msgs, sourcesRef, nextStartTimeRef>>
            ELSE /\ msgs' = StopAll(Range(sourcesRef))
                 /\ sourcesRef' = <<>>
                 /\ nextStartTimeRef' = 0
  /\ UNCHANGED <<reactVars, callVars, envVars, videoVars, sendVars, nMsgs>>
  /\ UNCHANGED <<inputAudioContextRef, outputAudioContextRef, outputGainNodeRef,
                 videoStreamRef, videoIntervalRef, sessionRef>>
  /\ UNCHANGED sideVars
  /\ NotByUser
  /\ broken' = TRUE /\ interruptedSince' = TRUE /\ UNCHANGED sched
  /\ staleUpTo' = IF \E m \in MsgIds : msgs[m].st = "decoding"
                    THEN nMsgs ELSE 0
  /\ stopRun' = 0 /\ stopRaised' = FALSE

\* ------------------------------------------------------------ teardown
\* session.close() on a transport that has already closed: the session
\* object is external and untyped; closing an already-closed resource may
\* raise (spec section 7) or be a no-op (spec section 6)
SessionCloseMayRaise(k) == conn[k] = "closed"

\* the transport after session.close()
AfterSessionClose(c) == IF c = "open" \/ c = "connecting" THEN "closing" ELSE c

\* a close that leaves the context running
AfterContextCloseNoop(s) == s

\* AudioContext.close(), lines 98 and 102
AfterContextClose(s) == "closed"

\* a teardown that keeps its refs
RefAfterReleaseKept(r) == r

\* lines 95, 99, 103, 109, 113: ref.current = null
RefAfterRelease(r) == 0

\* stopSession, lines 92-122.  raise: session.close() raises at line 94;
\* threw: a stop() of the sweep raises and is caught.
stopSession(raise, threw) ==
  /\ raise => (sessionRef # 0 /\ SessionCloseMayRaise(sessionRef))
  /\ threw => (~raise /\ AlreadyOver # {})
  /\ IF raise
       THEN /\ UNCHANGED <<isActive, isCameraOn, refVars, inputCtx, outputCtx,
                           conn, timers, camStream, msgs>>
            /\ swept' = NoSweep
            /\ stopRaised' = TRUE /\ stopRun' = 0
            /\ afterStop' = FALSE
       ELSE /\ sessionRef' = IF sessionRef # 0 THEN RefAfterRelease(sessionRef)
                                                ELSE 0
            /\ conn' = IF sessionRef # 0
                         THEN [conn EXCEPT ![sessionRef] = AfterSessionClose(@)]
                         ELSE conn
            /\ inputCtx' = IF inputAudioContextRef # 0
                  THEN [inputCtx EXCEPT ![inputAudioContextRef] =
                                              AfterContextClose(@)]
                  ELSE inputCtx
            /\ inputAudioContextRef' =
                  IF inputAudioContextRef # 0
                    THEN RefAfterRelease(inputAudioContextRef) ELSE 0
            /\ outputCtx' = IF outputAudioContextRef # 0
                  THEN [outputCtx EXCEPT ![outputAudioContextRef] =
                                              AfterContextClose(@)]
                  ELSE outputCtx
            /\ outputAudioContextRef' =
                  IF outputAudioContextRef # 0
                    THEN RefAfterRelease(outputAudioContextRef) ELSE 0
            /\ timers' = IF videoIntervalRef # 0
                           THEN timers \ {videoIntervalRef} ELSE timers
            /\ videoIntervalRef' =
                  IF videoIntervalRef # 0
                    THEN RefAfterRelease(videoIntervalRef) ELSE 0
            /\ camStream' = IF videoStreamRef # 0
                  THEN [camStream EXCEPT ![videoStreamRef] = "stopped"]
                  ELSE camStream
            /\ videoStreamRef' =
                  IF videoStreamRef # 0
                    THEN RefAfterRelease(videoStreamRef) ELSE 0
            /\ swept' = [kind |-> "stop", live |-> Range(sourcesRef),
                         stopped |-> IF SweepAborts(threw) THEN {}
                                     ELSE Range(sourcesRef),
                         threw |-> threw]
            /\ IF SweepAborts(threw)
                 THEN /\ UNCHANGED <<msgs, sourcesRef, isActive, isCameraOn>>
                      /\ stopRaised' = TRUE /\ stopRun' = 0
                      /\ afterStop' = FALSE
                 ELSE /\ msgs' = StopAll(Range(sourcesRef))
                      /\ sourcesRef' = <<>>
                      /\ isActive' = FALSE
                      /\ isCameraOn' = FALSE
                      /\ stopRaised' = FALSE
                      /\ stopRun' = IF stopRun < 2 THEN stopRun + 1 ELSE 2
                      /\ afterStop' = TRUE
  /\ UNCHANGED <<isMuted, outputGainNodeRef, nextStartTimeRef, callVars>>
  /\ UNCHANGED <<clock, promise, reactions, graph, micStream>>
  /\ UNCHANGED <<nCams, nTimers, camToggle, nMsgs, sendVars>>
  /\ UNCHANGED sideVars
  /\ KeepPlay

\* click on "Dismiss Class" (rendered only while isActive)
ClickStop ==
  /\ isActive
  /\ \E raise, threw \in BOOLEAN : stopSession(raise, threw)
  /\ UNCHANGED error

\* callbacks.onerror, lines 267-271
OnError(k) ==
  /\ conn[k] \in {"open", "closing"}
  /\ error' = TRUE
  /\ \E raise, threw \in BOOLEAN : stopSession(raise, threw)

\* --------------------------------------------------------- transcripts
\* A text is the sequence of its fragments; a fragment is named by the
\* session whose message carried it.  An absent transcription field and an
\* empty fragment both leave the accumulator as it is.
Fragments(k) == {<<>>, <<k>>}

\* a flush that puts the tutor's record first
FlushRecordsAiFirst(userText, aiText) ==
  (IF aiText # <<>> THEN <<[text |-> aiText, sender |-> "ai"]>> ELSE <<>>)
  \o (IF userText # <<>> THEN <<[text |-> userText, sender |-> "user"]>>
                         ELSE <<>>)

\* lines 251-252: the records of one turn (types.ts 2-6, the timestamp
\* left out)
FlushRecords(userText, aiText) ==
  (IF userText # <<>> THEN <<[text |-> userText, sender |-> "user"]>>
                      ELSE <<>>)
  \o (IF aiText # <<>> THEN <<[text |-> aiText, sender |-> "ai"]>> ELSE <<>>)

\* onmessage, lines 238-257: a message carrying transcription fragments
\* (i for the student's stream, o for the tutor's) and, when tc, the
\* turn-complete marker
OnMessageTranscript(k, i, o, tc) ==
  /\ conn[k] \in {"open", "closing"}
  /\ LET userText == currentInputTranscription \o i
         aiText == currentOutputTranscription \o o
     IN
     /\ Len(userText) <= MaxText /\ Len(aiText) <= MaxText
     /\ IF tc
          THEN /\ Len(transcriptions) + Len(FlushRecords(userText, aiText))
                    <= MaxRecords
               /\ transcriptions' =
                    transcriptions \o FlushRecords(userText, aiText)
               /\ currentInputTranscription' = <<>>
               /\ currentOutputTranscription' = <<>>
          ELSE /\ currentInputTranscription' = userText
               /\ currentOutputTranscription' = aiText
               /\ UNCHANGED transcriptions
  /\ UNCHANGED <<reactVars, refVars, callVars, envVars, videoVars, msgVars,
                 sendVars, vizVars, pcmVars>>
  /\ NotByUser
  /\ KeepPlay /\ Quiet

\* the "Clear Board" button, line 549 (rendered while the board is not
\* empty)
ClearBoard ==
  /\ transcriptions # <<>>
  /\ transcriptions' = <<>>
  /\ UNCHANGED <<currentInputTranscription, currentOutputTranscription>>
  /\ UNCHANGED <<reactVars, refVars, callVars, envVars, videoVars, msgVars,
                 sendVars, vizVars, pcmVars>>
  /\ ByUser
  /\ KeepPlay /\ Quiet

\* ----------------------------------------------------------- visualizer
\* One instance of the Visualizer component.  Its canvas is always rendered
\* and is taken to provide a 2d context.  Audio nodes are <<"gain", g>> and
\* <<"analyser", a>>; vizEdges holds the connections <<from, to>>.
VizProps == [isActive : BOOLEAN, audioContext : 0..VizContexts,
             gainNode : 0..VizGains, color : 1..VizColors]

\* line 17: the effect goes past its early return
EffectRuns(p) == p.isActive /\ p.audioContext # 0 /\ p.gainNode # 0

\* AudioNode.connect(destination)
NodeConnect(edges, from, to) == edges \cup {<<from, to>>}

\* AudioNode.disconnect() without argument: the node's outgoing connections
\* are removed, the connections into it are not
NodeDisconnect(edges, node) == {e \in edges : e[1] # node}

\* the cleanup of the effect, lines 55-58, on v = [frames, edges]
EffectCleanup(v) ==
  IF vizAnalyser = 0 THEN v
  ELSE [frames |-> IF animationRef # 0 THEN v.frames \ {animationRef}
                                       ELSE v.frames,
        edges  |-> NodeDisconnect(v.edges, <<"analyser", vizAnalyser>>)]

\* a render with new props commits: the dependencies of line 59 changed, so
\* the cleanup of the previous effect runs and then the effect, lines 16-54
VizRender(p) ==
  /\ vizMounted
  /\ p # vizProps
  /\ EffectRuns(p) => (nAnalysers < MaxAnalysers /\ nFrames < MaxFrames)
  /\ vizProps' = p
  /\ LET c == EffectCleanup([frames |-> vizFrames, edges |-> vizEdges]) IN
     IF EffectRuns(p)
       THEN /\ nAnalysers' = nAnalysers + 1
            /\ vizAnalyser' = nAnalysers + 1
            /\ vizEdges' = NodeConnect(c.edges, <<"gain", p.gainNode>>,
                                       <<"analyser", nAnalysers + 1>>)
            /\ nFrames' = nFrames + 1
            /\ animationRef' = nFrames + 1
            /\ vizFrames' = c.frames \cup {nFrames + 1}
       ELSE /\ vizAnalyser' = 0
            /\ vizEdges' = c.edges
            /\ vizFrames' = c.frames
            /\ UNCHANGED <<nAnalysers, nFrames, animationRef>>
  /\ UNCHANGED vizMounted
  /\ UNCHANGED <<progVars, pcmVars, histVars>>

\* a requested animation frame fires: draw, lines 30-51, requests the next
VizFrame(f) ==
  /\ f \in vizFrames
  /\ nFrames < MaxFrames
  /\ nFrames' = nFrames + 1
  /\ animationRef' = nFrames + 1
  /\ vizFrames' = (vizFrames \ {f}) \cup {nFrames + 1}
  /\ UNCHANGED <<vizProps, vizMounted, vizAnalyser, vizEdges, nAnalysers>>
  /\ UNCHANGED <<progVars, pcmVars, histVars>>

\* the component unmounts (App.tsx renders it only while isActive): the
\* cleanup of the effect runs
VizUnmount ==
  /\ vizMounted
  /\ vizMounted' = FALSE
  /\ LET c == EffectCleanup([frames |-> vizFrames, edges |-> vizEdges]) IN
     /\ vizEdges' = c.edges
     /\ vizFrames' = c.frames
  /\ vizAnalyser' = 0
  /\ UNCHANGED <<vizProps, animationRef, nAnalysers, nFrames>>
  /\ UNCHANGED <<progVars, pcmVars, histVars>>

\* ------------------------------------------------------------ PCM codec
\* createPcmBlob, decode and decodeAudioData (utils/audioUtils), from
\* sections 4.1 and 4.2 of the specification.  A float sample x is held as
\* the integer x * FullScale * SubSteps; a byte is 0..255; a base64 text is
\* the sequence of its 6-bit digits, Pad standing for '='.
FullScale == 32768

Pad == 64

OutputChannels == 1

\* the float 1.0
One == FullScale * SubSteps

Levels == {-FullScale, 1 - FullScale, -1, 0, 1, FullScale \div 2,
           FullScale - 2, FullScale - 1}

\* the float samples told apart: the levels above and the values between
\* each and the next, and the two ends of [-1.0, 1.0]
Samples ==
  {x \in {l * SubSteps + o : l \in Levels, o \in 0..(SubSteps - 1)} :
      -One <= x /\ x <= One} \cup {-One, One}

Chunks == UNION {[1..n -> Samples] : n \in 0..MaxChunk}

\* section 4.1 does not fix how a scaled sample becomes an integer
Roundings == {"floor", "nearest", "truncate"}

\* a sample scaled to 16 bits (the inverse of the decoder's int16 / 32768.0)
Quantize(x, mode) ==
  CASE mode = "floor"    -> x \div SubSteps
    [] mode = "nearest"  -> (2 * x + SubSteps) \div (2 * SubSteps)
    [] mode = "truncate" -> IF x >= 0 THEN x \div SubSteps
                                      ELSE -((-x) \div SubSteps)

\* an encoder that stores the scaled sample unclamped
Clamp16None(v) == v

\* section 4.1: clamped to the representable range
Clamp16(v) ==
  IF v > FullScale - 1 THEN FullScale - 1
  ELSE IF v < -FullScale THEN -FullScale ELSE v

\* a signed 16-bit integer as two bytes, little-endian (a value out of
\* range wraps)
Int16Bytes(v) ==
  LET u == v % (2 * FullScale) IN <<u % 256, u \div 256>>

\* the PCM bytes of a chunk
EncodeSamples(chunk, mode) ==
  [i \in 1..(2 * Len(chunk)) |->
     Int16Bytes(Clamp16(Quantize(chunk[(i + 1) \div 2], mode)))
       [IF i % 2 = 1 THEN 1 ELSE 2]]

RECURSIVE Base64Encode(_)
Base64Encode(bytes) ==
  IF bytes = <<>> THEN <<>>
  ELSE LET n == IF Len(bytes) >= 3 THEN 3 ELSE Len(bytes)
           g == bytes[1] * 65536
                  + (IF n >= 2 THEN bytes[2] * 256 ELSE 0)
                  + (IF n = 3 THEN bytes[3] ELSE 0)
       IN <<g \div 262144, (g \div 4096) % 64,
            IF n >= 2 THEN (g \div 64) % 64 ELSE Pad,
            IF n = 3 THEN g % 64 ELSE Pad>>
          \o Base64Encode(SubSeq(bytes, n + 1, Len(bytes)))

\* createPcmBlob, section 4.1
createPcmBlob(chunk, mode) ==
  [mimeType |-> "audio/pcm;rate=16000",
   data |-> Base64Encode(EncodeSamples(chunk, mode))]

\* decode, section 4.2: base64 text to bytes
RECURSIVE decode(_)
decode(text) ==
  IF Len(text) < 4 THEN <<>>
  ELSE LET n == IF text[3] = Pad THEN 1 ELSE IF text[4] = Pad THEN 2 ELSE 3
           g == text[1] * 262144 + text[2] * 4096
                  + (IF n >= 2 THEN text[3] * 64 ELSE 0)
                  + (IF n = 3 THEN text[4] ELSE 0)
       IN SubSeq(<<g \div 65536, (g \div 256) % 256, g % 256>>, 1, n)
          \o decode(SubSeq(text, 5, Len(text)))

\* the i-th little-endian signed 16-bit integer of bytes
Int16At(bytes, i) ==
  LET u == bytes[2 * i - 1] + 256 * bytes[2 * i] IN
  IF u >= FullScale THEN u - 2 * FullScale ELSE u

\* decodeAudioData, section 4.2: the samples of channel 0, int16 / 32768.0
decodeAudioData(bytes, numChannels) ==
  [i \in 1..((Len(bytes) \div 2) \div numChannels) |->
     Int16At(bytes, (i - 1) * numChannels + 1) * SubSteps]

\* a chunk of float samples is handed to the encoder
InitCodec ==
  /\ InitClient
  /\ pcmStage = "captured"
  /\ pcmIn \in Chunks
  /\ pcmRounding \in Roundings
  /\ pcmBlob = NoBlob /\ pcmOut = <<>>

\* createPcmBlob(inputData), App.tsx line 202
PcmEncode ==
  /\ pcmStage = "captured"
  /\ pcmBlob' = createPcmBlob(pcmIn, pcmRounding)
  /\ pcmStage' = "encoded"
  /\ UNCHANGED <<pcmIn, pcmRounding, pcmOut>>
  /\ UNCHANGED <<progVars, vizVars, histVars>>

\* decodeAudioData(decode(base64Audio), ctx, 24000, 1), App.tsx line 224
PcmDecode ==
  /\ pcmStage = "encoded"
  /\ pcmOut' = decodeAudioData(decode(pcmBlob.data), OutputChannels)
  /\ pcmStage' = "decoded"
  /\ UNCHANGED <<pcmIn, pcmRounding, pcmBlob>>
  /\ UNCHANGED <<progVars, vizVars, histVars>>

\* ------------------------------------------------------- specification
\* session lifecycle and teardown, with at most maxCalls
\* startSession calls
Lifecycle(maxCalls) ==
  \/ StartSession(maxCalls)
  \/ \E k \in Calls : MicGranted(k)
  \/ \E k \in Calls : MicDenied(k)
  \/ \E k \in Calls : OnOpen(k)
  \/ \E k \in Calls : OnClose(k)
  \/ \E k \in Calls : RejectPromise(k)
  \/ \E k \in Calls : ResolvePromise(k)
  \/ ClickStop
  \/ \E k \in Calls : OnError(k)

\* sessions that are started, opened and stopped without a failure
Sessions(maxCalls) ==
  \/ StartSession(maxCalls)
  \/ \E k \in Calls : MicGranted(k)
  \/ \E k \in Calls : OnOpen(k)
  \/ \E k \in Calls : ResolvePromise(k)
  \/ ClickStop

\* the camera
Video ==
  \/ \E k \in Calls : CamGranted(k)
  \/ \E k \in Calls : CamDenied(k)
  \/ ToggleCameraIdle
  \/ ToggleCameraOff

\* switching the camera on in mid-session
CameraToggle ==
  \/ ToggleCameraOn
  \/ ToggleCamGranted
  \/ ToggleCamDenied

\* the capture pipeline and its mute control
Capture ==
  \/ \E k \in Calls : OnAudioProcess(k)
  \/ ToggleMute

\* the playback scheduler, with at most maxMsgs audio messages
Playback(maxMsgs) ==
  \/ \E k \in Calls : ClockAdvance(k)
  \/ \E k \in Calls, d \in Durations : OnMessageAudio(k, d, maxMsgs)
  \/ \E id \in MsgIds : DecodeDone(id)
  \/ \E id \in MsgIds : NaturalEnd(id)
  \/ \E id \in MsgIds : OnEnded(id)
  \/ \E k \in Calls : OnMessageInterrupted(k)

\* the transcript board
Transcript ==
  \/ \E k \in Calls : \E i, o \in Fragments(k), tc \in BOOLEAN :
        OnMessageTranscript(k, i, o, tc)
  \/ ClearBoard

\* the whole client
Next ==
  \/ Lifecycle(MaxSessions) \/ Video \/ CameraToggle \/ Capture
  \/ Playback(MaxMsgs) \/ Transcript

Spec == Init /\ [][Next]_vars

\* sessions and their capture pipelines: no camera, no inbound audio
NextCapture == Lifecycle(MaxSessions) \/ Capture

SpecCapture == Init /\ [][NextCapture]_vars

\* one session and its playback scheduler: no camera, no capture ticks
NextPlayback == Lifecycle(PlaybackSessions) \/ Playback(MaxMsgs)

SpecPlayback == Init /\ [][NextPlayback]_vars

\* one session with camera and playback, torn down
NextTeardown == Lifecycle(TeardownSessions) \/ Video \/ Playback(TeardownMsgs)

SpecTeardown == Init /\ [][NextTeardown]_vars

\* sessions and the camera in full: no audio in either direction
NextCamera == Lifecycle(MaxSessions) \/ Video \/ CameraToggle

SpecCamera == Init /\ [][NextCamera]_vars

\* one Visualizer instance under every sequence of props
NextVisualizer ==
  \/ \E p \in VizProps : VizRender(p)
  \/ \E f \in 1..MaxFrames : VizFrame(f)
  \/ VizUnmount

SpecVisualizer == Init /\ [][NextVisualizer]_vars

\* the codec applied to one chunk
NextCodec == PcmEncode \/ PcmDecode

SpecCodec == InitCodec /\ [][NextCodec]_vars

\* audio messages scheduled against the output clock, never played out
Scheduling(maxMsgs) ==
  \/ \E k \in Calls : ClockAdvance(k)
  \/ \E k \in Calls, d \in Durations : OnMessageAudio(k, d, maxMsgs)
  \/ \E id \in MsgIds : DecodeDone(id)

\* one session after another, each scheduling the audio it receives
NextRestart == Sessions(RestartSessions) \/ Scheduling(RestartMsgs)

SpecRestart == Init /\ [][NextRestart]_vars

\* sessions and the transcript board: no camera, no audio in either
\* direction
NextTranscript == Lifecycle(TranscriptSessions) \/ Transcript

SpecTranscript == Init /\ [][NextTranscript]_vars

\* one session after another and the transcript board, the accumulators and
\* the board kept short
NextTranscriptRestart ==
  \/ Sessions(RestartSessions)
  \/ /\ Transcript
     /\ Len(currentInputTranscription') <= RestartText
     /\ Len(currentOutputTranscription') <= RestartText
     /\ Len(transcriptions') <= RestartRecords

SpecTranscriptRestart == Init /\ [][NextTranscriptRestart]_vars

\* ---------------------------------------------------------------- claims
Started == {"started", "finished", "killed", "gone"}

\* C1 (as claimed): a capture tick that fires while the current mute state is
\* true encodes and sends nothing, and a tick that fires while it is false
\* encodes and sends its chunk.
C1_MuteSuppressesTransmission ==
  \A i \in DOMAIN tickLog : tickLog[i].encoded = ~tickLog[i].muted

\* C2: right after a message with the interruption marker is handled, stop()
\* has been called on every source that was in the live set (a raising stop
\* included), none of them is still playing, the live set is empty and the
\* cursor is 0.
C2_InterruptionSweep ==
  swept.kind = "interrupt" =>
    /\ swept.stopped = swept.live
    /\ \A s \in swept.live : msgs[s].st \in {"killed", "finished"}
    /\ sourcesRef = <<>>
    /\ nextStartTimeRef = 0

\* C2 witness: an interruption swept two live sources and one stop() raised
C2_Witness ==
  /\ swept.kind = "interrupt"
  /\ Cardinality(swept.live) = 2
  /\ swept.threw

\* C3 (as claimed): the first buffer scheduled after an interruption is
\* started at the output clock's time at the moment of scheduling.
C3_InterruptionResetsTimeline ==
  (sched.id # 0 /\ sched.afterInt) => sched.startAt = sched.clockAt

\* C4: in a run of buffers of one session scheduled in arrival order, with
\* no interruption and the output clock never past the cursor, each buffer
\* starts at the start of the first plus the durations of those before it,
\* and the cursor then stands at that start plus the buffer's own duration.
C4_GaplessScheduling ==
  sched.id # 0 =>
    /\ sched.startAt = sched.first + sched.sum
    /\ ~broken => nextStartTimeRef = sched.first + sched.sum + sched.dur

\* C4 witness: three buffers of equal duration started at 0, 1 and 2
C4_Witness ==
  /\ sched.n = 3 /\ sched.first = 0 /\ sched.dur = 1
  /\ sched.startAt = 2 /\ nextStartTimeRef = 3 /\ ~broken

\* C5 (as claimed): a source is never started at a time before the output
\* clock's time at that moment.
C5_NeverScheduleInThePast ==
  sched.id # 0 => sched.startAt >= sched.clockAt

\* C6 (as claimed): a buffer is not started while the decode of a message
\* delivered before it is still in flight.
C6_ArrivalOrderScheduling ==
  \A a, b \in MsgIds :
    (a < b /\ msgs[b].st \in Started) => msgs[a].st # "decoding"

\* C7: the chunks of one session reach sendRealtimeInput in capture order,
\* deferred ones included.
C7_CaptureOrderSends ==
  \A i, j \in DOMAIN sent :
    (i < j /\ sent[i].sess = sent[j].sess) => sent[i].id < sent[j].id

\* C7 witness: two chunks of one session were sent, both deferred through
\* the pending sessionPromise
C7_Witness ==
  /\ Len(sent) = 2
  /\ sent[1].sess = sent[2].sess
  /\ sent[1].deferred /\ sent[2].deferred

\* what a stopSession call that returned leaves behind
TornDown ==
  /\ sourcesRef = <<>>
  /\ timers = {}
  /\ sessionRef = 0
  /\ inputAudioContextRef = 0
  /\ outputAudioContextRef = 0
  /\ ~isActive

\* everything stopSession can reach (error belongs to its callers)
stopVars == <<isActive, isMuted, isCameraOn, refVars, callVars, envVars,
              videoVars, msgVars, sendVars>>

C9_TeardownNeverThrows == ~stopRaised

\* C10: right after stopSession returns, stop() has been called on every
\* source that was live, none of them is playing, the live set is empty and
\* the audio contexts of the latest startSession call are closed.
C10_TeardownEffects ==
  swept.kind = "stop" =>
    /\ swept.stopped = swept.live
    /\ \A s \in swept.live : msgs[s].st \in {"killed", "finished"}
    /\ sourcesRef = <<>>
    /\ nCalls >= 1 => /\ inputCtx[nCalls] = "closed"
                      /\ outputCtx[nCalls] = "closed"

\* C10 witness: a teardown with two live sources, one of them already over
C10_Witness ==
  /\ swept.kind = "stop"
  /\ Cardinality(swept.live) = 2
  /\ swept.threw

\* C11 (as claimed): once stopSession has returned, the script processor of
\* the latest startSession call is disconnected and the microphone stream
\* that call obtained is stopped, so its capture pipeline can tick no more.
C11_StoppingHaltsCapture ==
  (stopRun >= 1 /\ nCalls >= 1) =>
    /\ ~graph[nCalls]
    /\ micStream[nCalls] # "live"
    /\ inputCtx[nCalls] # "running"

C13_TransportFailureTearsDown ==
  [][\A k \in Calls :
       OnError(k) =>
         /\ error' /\ ~isActive'
         /\ sourcesRef' = <<>>
         /\ inputCtx'[k] # "running" /\ outputCtx'[k] # "running"
         /\ ~(graph'[k] /\ inputCtx'[k] = "running")
         /\ micStream'[k] # "live"]_vars

\* C14 (as claimed): a startSession call whose microphone acquisition was
\* rejected has issued no connect; a call whose camera acquisition alone
\* was rejected has connected, and startVideoTransmission is never run for
\* its session.
C14_AcquisitionFailure ==
  \A k \in Calls :
    /\ (call[k].pc = "failed" /\ promise[k] = "none") => conn[k] = "none"
    /\ call[k].cam = "denied" => (conn[k] # "none" /\ ~call[k].video)

\* the board grew in this step, by the records new
NewRecords == SubSeq(transcriptions', Len(transcriptions) + 1,
                     Len(transcriptions'))

\* C15: the transcript board grows only in the handling of a turn-complete
\* message; such a handling appends one record per stream whose accumulated
\* text is non-empty, holding that text, the student's record before the
\* tutor's, and leaves both accumulators empty; no record has an empty text.
C15_TranscriptFlush ==
  /\ [](\A j \in DOMAIN transcriptions : transcriptions[j].text # <<>>)
  /\ [][Len(transcriptions') > Len(transcriptions) =>
          \E k \in Calls : \E i, o \in Fragments(k) :
            OnMessageTranscript(k, i, o, TRUE)]_vars
  /\ [][\A k \in Calls : \A i, o \in Fragments(k) :
          OnMessageTranscript(k, i, o, TRUE) =>
            LET userText == currentInputTranscription \o i
                aiText == currentOutputTranscription \o o
            IN
            /\ currentInputTranscription' = <<>>
            /\ currentOutputTranscription' = <<>>
            /\ SubSeq(transcriptions', 1, Len(transcriptions)) = transcriptions
            /\ Len(NewRecords) =
                 (IF userText # <<>> THEN 1 ELSE 0)
                   + (IF aiText # <<>> THEN 1 ELSE 0)
            /\ userText # <<>> =>
                 NewRecords[1] = [text |-> userText, sender |-> "user"]
            /\ aiText # <<>> =>
                 NewRecords[Len(NewRecords)] = [text |-> aiText, sender |-> "ai"]
        ]_vars

\* C15 witness: one turn put a student's record and then a tutor's record on
\* the board, the student's text accumulated from two fragments
C15_Witness ==
  /\ Len(transcriptions) = 2
  /\ transcriptions[1].sender = "user" /\ Len(transcriptions[1].text) = 2
  /\ transcriptions[2].sender = "ai"
  /\ currentInputTranscription = <<>> /\ currentOutputTranscription = <<>>

\* C16 (as claimed): from the return of stopSession until the next user
\* action, no video interval timer is pending and no camera stream is open.
C16_StopCancelsTimersAndStreams ==
  afterStop =>
    /\ timers = {}
    /\ \A c \in 1..MaxCams : camStream[c] # "live"

\* the analysers connected to gain node g
TapsOf(g) == {e \in vizEdges : e[1] = <<"gain", g>>}

\* C17 (as claimed): while the Visualizer is unmounted, inactive or without
\* audio context or gain node, no analyser is connected to any gain node and
\* no animation frame is pending; while it is active, exactly one analyser
\* is connected to its gain node and exactly one animation frame is pending.
C17_VisualizerLifecycle ==
  IF vizMounted /\ EffectRuns(vizProps)
    THEN /\ Cardinality(TapsOf(vizProps.gainNode)) = 1
         /\ Cardinality(vizFrames) = 1
    ELSE /\ \A g \in 1..VizGains : TapsOf(g) = {}
         /\ vizFrames = {}

\* C18: a chunk of float samples in [-1.0, 1.0], encoded and then decoded
\* with one channel, comes back with the same length and each sample within
\* 1/32768 of the original; a chunk of zeros comes back as zeros.
C18_PcmRoundTrip ==
  pcmStage = "decoded" =>
    /\ Len(pcmOut) = Len(pcmIn)
    /\ \A i \in DOMAIN pcmIn :
         /\ pcmIn[i] - pcmOut[i] <= SubSteps
         /\ pcmOut[i] - pcmIn[i] <= SubSteps
         /\ pcmIn[i] = 0 => pcmOut[i] = 0

\* C18 witness: a full chunk whose first sample is 1.0, clamped by the
\* encoder to the highest level, has been decoded
C18_Witness ==
  /\ pcmStage = "decoded"
  /\ Len(pcmIn) = MaxChunk
  /\ pcmIn[1] = One
  /\ pcmOut[1] = One - SubSteps

\* C19: the cursor changes only by being raised to the output clock when an
\* audio message is received, by growing by the duration of the buffer whose
\* source is started, or by being set to 0 by an interruption; stopSession
\* leaves it as it is, and it decreases in an interruption only.
C19_CursorUpdates ==
  /\ [][nextStartTimeRef' # nextStartTimeRef =>
          \/ /\ nMsgs' = nMsgs + 1
             /\ outputAudioContextRef # 0
             /\ nextStartTimeRef' = clock[outputAudioContextRef]
             /\ nextStartTimeRef' > nextStartTimeRef
          \/ \E id \in MsgIds :
               /\ msgs[id].st = "decoding" /\ msgs'[id].st = "started"
               /\ nextStartTimeRef' = nextStartTimeRef + msgs[id].dur
          \/ /\ swept'.kind = "interrupt"
             /\ nextStartTimeRef' = 0]_vars
  /\ [][(swept'.kind = "stop" \/ stopRaised') => UNCHANGED nextStartTimeRef]_vars
  /\ [][nextStartTimeRef' < nextStartTimeRef => swept'.kind = "interrupt"]_vars

\* C19 witness: a stopSession call has returned and the cursor, advanced by
\* a started source, stands where it stood
C19_Witness ==
  /\ swept.kind = "stop"
  /\ nextStartTimeRef > 0
  /\ sched.id # 0

\* C20: the live set holds exactly the sources that were started and whose
\* 'ended' listener has not run and that no sweep has removed, each once; a
\* source enters it in the step that starts it; the 'ended' listener of a
\* source that a sweep removed leaves the set as it is and raises nothing,
\* and so does a sweep over a source whose playback is over.
C20_LiveSetMembership ==
  /\ [](/\ Range(sourcesRef) =
             {id \in MsgIds : msgs[id].st \in {"started", "finished"}}
        /\ Len(sourcesRef) = Cardinality(Range(sourcesRef))
        /\ swept.threw => ~stopRaised)
  /\ [][\A id \in MsgIds :
          /\ (id \in Range(sourcesRef') /\ id \notin Range(sourcesRef)) =>
               (msgs[id].st = "decoding" /\ msgs'[id].st = "started")
          /\ (msgs[id].st = "killed" /\ msgs'[id].st = "gone") =>
               (sourcesRef' = sourcesRef /\ ~stopRaised')]_vars

\* C20 witness: a source removed by a sweep still awaits its 'ended' event
\* while a source started after the sweep is in the live set
C20_Witness ==
  \E a, b \in MsgIds :
    /\ msgs[a].st = "killed"
    /\ msgs[b].st = "started"
    /\ sourcesRef = <<b>>

\* C21 (as claimed): the first buffer of a session is started no later than
\* that session's output clock reads when the source is started: no cursor
\* value left over from an earlier session puts it off.
C21_FreshTimelinePerSession ==
  (sched.id # 0 /\ sched.firstOfSess) => sched.startAt <= sched.clockAt

\* C22 (as claimed): no source is started for an audio message that was
\* delivered before an interruption that has been handled since.
C22_NoStaleAudioAfterBargeIn ==
  [][\A id \in MsgIds :
       (id <= staleUpTo) =>
         /\ ~(msgs[id].st = "decoding" /\ msgs'[id].st = "started")
         /\ ~(id \notin Range(sourcesRef) /\ id \in Range(sourcesRef'))]_vars

\* C23 (as claimed): after stopSession has returned and until the user acts
\* again, the live set is empty and no source is started, also when the
\* decode of an audio message settles after the teardown.
C23_LiveSetEmptyAfterTeardown ==
  [][(afterStop /\ afterStop') =>
       /\ sourcesRef' = <<>>
       /\ \A id \in MsgIds :
            ~(msgs[id].st = "decoding" /\ msgs'[id].st = "started")]_vars

\* C24 (as claimed): at most one session is open, at most one input context
\* and one output context created by startSession is running and at most one
\* microphone stream is captured, and a running context is the one the ref
\* holds.
C24_SingleLiveSession ==
  /\ Cardinality({k \in Calls : conn[k] = "open"}) <= 1
  /\ Cardinality({k \in Calls : inputCtx[k] = "running"}) <= 1
  /\ Cardinality({k \in Calls : outputCtx[k] = "running"}) <= 1
  /\ Cardinality({k \in Calls : micStream[k] = "live"}) <= 1
  /\ \A k \in Calls : inputCtx[k] = "running" => inputAudioContextRef = k
  /\ \A k \in Calls : outputCtx[k] = "running" => outputAudioContextRef = k

\* a startSession call is between its first await and its return or catch
InProgress(k) == call[k].pc \in {"awaitMic", "awaitCam", "awaitSession"}

\* C25 (as claimed): whenever isActive is false and no startSession call is
\* in progress, no audio context is running, no microphone stream is captured
\* and the live set is empty.
C25_InactiveMeansReleased ==
  (~isActive /\ \A k \in Calls : ~InProgress(k)) =>
    /\ \A k \in Calls : inputCtx[k] # "running" /\ outputCtx[k] # "running"
    /\ \A k \in Calls : micStream[k] # "live"
    /\ sourcesRef = <<>>

\* C26 (as claimed): once stopSession has returned and no startSession call
\* is in progress any more, sessionRef is null and no session that was
\* connected is still connecting or open.
C26_StoppedSessionIsClosed ==
  (afterStop /\ \A k \in Calls : ~InProgress(k)) =>
    /\ sessionRef = 0
    /\ \A k \in Calls : conn[k] \notin {"connecting", "open"}

\* C27 (as claimed): the records flushed by a turn-complete message of a
\* session hold only fragments that this session's messages carried.
C27_TranscriptStaysInSession ==
  [][\A k \in Calls : \A i, o \in Fragments(k) :
       OnMessageTranscript(k, i, o, TRUE) =>
         \A r \in Range(NewRecords) : Range(r.text) \subseteq {k}]_vars

====
